---- MODULE Spec2Model ----
(***************************************************************************)
(* A model of honk.py: the tile-index builders of TiledRenderer, the spawn *)
(* set-up of SimpleTest.__init__ and the event loop of SimpleTest.run.     *)
(*                                                                         *)
(* Python values are modelled as follows.  A dict is a function whose      *)
(* DOMAIN is its key set; a dict's iteration order is a sequence of        *)
(* <<key, value>> pairs.  None and the empty tuple are <<>>.  A layer's    *)
(* data[y][x] is a function of y whose values are functions of x, both     *)
(* counted from 0 as in Python.  An uncaught exception leaves the program  *)
(* at pc = "error" with `raised` naming the exception; assignments made    *)
(* before the exception stay made.                                         *)
(***************************************************************************)
EXTENDS Integers, Sequences, FiniteSets

VARIABLES
    pc,               \* where the program is
    tile_properties,  \* tmx_data.tile_properties, in iteration order
    it,               \* number of items of the current for loop already done
    characters,       \* the dict built by build_character_index
    spawns,           \* the dict built by build_spawn_index, in iteration order
    layers,           \* tmx_data.layers[l].data[y][x]
    start_layers,     \* layers as they were when the current phase began
    selection,        \* SimpleTest.selection
    running,          \* SimpleTest.running
    exit_status,      \* SimpleTest.exit_status
    pending,          \* events of the current pygame.event.get() batch not yet handled
    quit_handled,     \* a QUIT or ESC key-down has been handled
    screen_mode,      \* the size last given to pygame.display.set_mode
    printed,          \* the last line written by print
    raised            \* the exception that ended the program, "" if none

vars == <<pc, tile_properties, it, characters, spawns, layers, start_layers,
          selection, running, exit_status, pending, quit_handled,
          screen_mode, printed, raised>>

-----------------------------------------------------------------------------
(* Bounds *)

MaxBatch == 2       \* events returned by one pygame.event.get()
MaxSprites == 2     \* character tiles on the Sprite Layer at start-up
MaxTiles == 3       \* entries of tile_properties fed to build_character_index
MaxSpawnTiles == 3  \* spawn-marker tiles on the map before the spawn set-up

-----------------------------------------------------------------------------
(* Python dictionaries and None *)

None == <<>>

EmptyDict == <<>>

Has(d, k) == k \in DOMAIN d

Put(d, k, v) == [j \in (DOMAIN d) \cup {k} |-> IF j = k THEN v ELSE d[j]]

-----------------------------------------------------------------------------
(* The loaded map *)

tilewidth == 2      \* tmx_data.tilewidth, in pixels
tileheight == 2     \* tmx_data.tileheight, in pixels
scale == 1          \* conf.scale

\* rows of a layer as data[y][x], y and x counted from 0
Grid(rows) ==
    [y \in 0..(Len(rows) - 1) |->
        [x \in 0..(Len(rows[1]) - 1) |-> rows[y + 1][x + 1]]]

\* The tile set: gid 1 grass, 2 water, 3 mountains, 4 a tile with properties
\* but no terrain, 5 and 6 the spawn markers, 7 to 10 the characters.  Gid 0
\* is the empty cell and has no properties.
Tileset ==
    << <<1, [terrain |-> "grass"]>>,
       <<2, [terrain |-> "water"]>>,
       <<3, [terrain |-> "mountains"]>>,
       <<4, [decor |-> "fence"]>>,
       <<5, [spawn |-> "red"]>>,
       <<6, [spawn |-> "blue"]>>,
       <<7, [team |-> "red", character |-> "dude", mode |-> "idle"]>>,
       <<8, [team |-> "red", character |-> "dudess", mode |-> "idle"]>>,
       <<9, [team |-> "blue", character |-> "dude", mode |-> "idle"]>>,
       <<10, [team |-> "blue", character |-> "dudess", mode |-> "idle"]>> >>

\* The World Layer of the map
WorldLayer == Grid(<< <<1, 2, 4>>,
                      <<3, 0, 1>> >>)

Width == Cardinality(DOMAIN WorldLayer[0])
Height == Cardinality(DOMAIN WorldLayer)
Cols == 0..(Width - 1)
Rows == 0..(Height - 1)
Cells == Cols \X Rows

\* tmx_data.get_layer_by_name
get_layer_by_name(name) == IF name = "World Layer" THEN 0 ELSE 1

\* tmx_data.get_tile_properties_by_gid: the properties, or None
get_tile_properties_by_gid(props, gid) ==
    LET hits == {i \in 1..Len(props) : props[i][1] = gid}
    IN  IF hits = {} THEN None ELSE props[CHOOSE i \in hits : TRUE][2]

-----------------------------------------------------------------------------
(* TiledRenderer.build_character_index and build_spawn_index *)

Ok(v) == [err |-> "", val |-> v]

Fail(e, v) == [err |-> e, val |-> v]

\* one iteration of the loop of build_character_index over (gid, props)
CharacterStep(chars, gid, props) ==
    IF ~(Has(props, "team") /\ Has(props, "character") /\ Has(props, "mode"))
    THEN Ok(chars)
    ELSE LET name == props["character"]
             team == props["team"]
             mode == props["mode"]
             c1 == IF ~Has(chars, team) THEN Put(chars, team, EmptyDict) ELSE chars
             c2 == IF ~Has(c1[team], team)
                   THEN Put(c1, team, Put(c1[team], name, EmptyDict))
                   ELSE c1
         IN  IF ~Has(c2[team], name)
             THEN Fail("KeyError", c2)
             ELSE Ok(Put(c2, team, Put(c2[team], name, Put(c2[team][name], mode, gid))))

RECURSIVE CharacterLoop(_, _, _)
CharacterLoop(chars, props, i) ==
    IF i > Len(props)
    THEN Ok(chars)
    ELSE LET r == CharacterStep(chars, props[i][1], props[i][2])
         IN  IF r.err # "" THEN r ELSE CharacterLoop(r.val, props, i + 1)

build_character_index(props) == CharacterLoop(EmptyDict, props, 1)

\* spawns[colour] = gid on a dict kept in iteration order: a new key goes to
\* the end, an existing key keeps its place
SpawnPut(sp, colour, gid) ==
    IF \E i \in 1..Len(sp) : sp[i][1] = colour
    THEN [i \in 1..Len(sp) |-> IF sp[i][1] = colour THEN <<colour, gid>> ELSE sp[i]]
    ELSE Append(sp, <<colour, gid>>)

RECURSIVE SpawnLoop(_, _, _)
SpawnLoop(sp, props, i) ==
    IF i > Len(props)
    THEN sp
    ELSE SpawnLoop(IF Has(props[i][2], "spawn")
                   THEN SpawnPut(sp, props[i][2]["spawn"], props[i][1])
                   ELSE sp,
                   props, i + 1)

build_spawn_index(props) == SpawnLoop(<<>>, props, 1)

-----------------------------------------------------------------------------
(* SimpleTest.run: the MOUSEBUTTONUP handler *)

\* int(pos / (tile size * conf.scale))
TileAt(p, size) == p \div (size * scale)

\* the pixel positions pygame.mouse.get_pos() can report inside the window
MousePositions == (0..(Width * tilewidth * scale - 1)) \X (0..(Height * tileheight * scale - 1))

\* get_tile_properties_by_gid(tile)["terrain"]
Terrain(props, tile) ==
    LET p == get_tile_properties_by_gid(props, tile)
    IN  IF DOMAIN p = {} THEN Fail("TypeError", "")
        ELSE IF ~Has(p, "terrain") THEN Fail("KeyError", "")
        ELSE Ok(p["terrain"])

Occupied(data, x, y) == data[y][x] # 0

\* MoveSprite without the line that empties the cell the sprite came from
MoveSprite_KeepSource(data, sel, x, y) == [data EXCEPT ![y][x] = sel[3]]

\* layer.data[y][x] = selection[2]; layer.data[selection[1]][selection[0]] = 0
MoveSprite(data, sel, x, y) ==
    LET d1 == [data EXCEPT ![y][x] = sel[3]]
    IN  [d1 EXCEPT ![sel[2]][sel[1]] = 0]

\* Select with the coordinates stored the other way round
Select_Swapped(data, x, y) == <<y, x, data[y][x]>>

\* (x, y, layer.data[y][x])
Select(data, x, y) == <<x, y, data[y][x]>>

\* Refusal without the mountains branch
Refusal_NoMountains(data, terrain, x, y) ==
    IF Occupied(data, x, y) THEN "Something already here."
    ELSE IF terrain = "water" THEN "oh no is water"
    ELSE ""

\* Refusal without the test for a sprite already on the cell
Refusal_NoOccupied(data, terrain, x, y) ==
    IF terrain = "water" THEN "oh no is water"
    ELSE IF terrain = "mountains" THEN "oh no is mountain"
    ELSE ""

\* the line the branches at lines 215 to 220 print, "" when the move is allowed
Refusal(data, terrain, x, y) ==
    IF Occupied(data, x, y) THEN "Something already here."
    ELSE IF terrain = "water" THEN "oh no is water"
    ELSE IF terrain = "mountains" THEN "oh no is mountain"
    ELSE ""

HandleMouseUp(pos) ==
    /\ pc = "events"
    /\ pending > 0
    /\ pending' = pending - 1
    /\ LET x == TileAt(pos[1], tilewidth)
           y == TileAt(pos[2], tileheight)
           s == get_layer_by_name("Sprite Layer")
           layer == layers[s]
           tile == layers[get_layer_by_name("World Layer")][y][x]
           terrain == Terrain(tile_properties, tile)
       IN  IF terrain.err # ""
           THEN /\ pc' = "error"
                /\ raised' = terrain.err
                /\ UNCHANGED <<layers, selection, printed>>
           ELSE /\ UNCHANGED <<pc, raised>>
                /\ IF selection # None
                   THEN IF Refusal(layer, terrain.val, x, y) # ""
                        THEN /\ printed' = Refusal(layer, terrain.val, x, y)
                             /\ UNCHANGED <<layers, selection>>
                        ELSE /\ layers' = [layers EXCEPT ![s] = MoveSprite(layer, selection, x, y)]
                             /\ selection' = None
                             /\ UNCHANGED printed
                   ELSE /\ selection' = IF Occupied(layer, x, y)
                                        THEN Select(layer, x, y)
                                        ELSE selection
                        /\ UNCHANGED <<layers, printed>>
    /\ UNCHANGED <<tile_properties, it, characters, spawns, start_layers, running,
                   exit_status, quit_handled, screen_mode>>

-----------------------------------------------------------------------------
(* SimpleTest.run: the rest of the loop *)

\* init_screen(width, height)
init_screen(width, height) == <<width, height>>

\* the sizes a VIDEORESIZE event can carry
ResizeSizes == {<<Width * tilewidth * scale + 1, Height * tileheight * scale>>,
                <<Width * tilewidth * scale, Height * tileheight * scale + 1>>}

Keys == {"K_ESCAPE", "K_SPACE"}

RunStart ==
    /\ pc = "constructed"
    /\ running' = TRUE
    /\ exit_status' = 1
    /\ pc' = "loop"
    /\ UNCHANGED <<tile_properties, it, characters, spawns, layers, start_layers,
                   selection, pending, quit_handled, screen_mode, printed, raised>>

\* while self.running: clock.tick(15); for event in pygame.event.get()
GetEvents ==
    /\ pc = "loop"
    /\ running
    /\ \E n \in 0..MaxBatch : pending' = n
    /\ pc' = "events"
    /\ UNCHANGED <<tile_properties, it, characters, spawns, layers, start_layers,
                   selection, running, exit_status, quit_handled, screen_mode,
                   printed, raised>>

HandleQuit ==
    /\ pc = "events"
    /\ pending > 0
    /\ pending' = pending - 1
    /\ exit_status' = 0
    /\ running' = FALSE
    /\ quit_handled' = TRUE
    /\ UNCHANGED <<pc, tile_properties, it, characters, spawns, layers, start_layers,
                   selection, screen_mode, printed, raised>>

HandleKeyDown(key) ==
    /\ pc = "events"
    /\ pending > 0
    /\ pending' = pending - 1
    /\ IF key = "K_ESCAPE"
       THEN /\ exit_status' = 0
            /\ running' = FALSE
            /\ quit_handled' = TRUE
       ELSE UNCHANGED <<exit_status, running, quit_handled>>
    /\ UNCHANGED <<pc, tile_properties, it, characters, spawns, layers, start_layers,
                   selection, screen_mode, printed, raised>>

\* elif event.type == VIDEORESIZE: pass (the init_screen call is commented out)
HandleResize(w, h) ==
    /\ pc = "events"
    /\ pending > 0
    /\ pending' = pending - 1
    /\ UNCHANGED <<pc, tile_properties, it, characters, spawns, layers, start_layers,
                   selection, running, exit_status, quit_handled, screen_mode,
                   printed, raised>>

\* an event of a type none of the branches names
HandleOther ==
    /\ pc = "events"
    /\ pending > 0
    /\ pending' = pending - 1
    /\ UNCHANGED <<pc, tile_properties, it, characters, spawns, layers, start_layers,
                   selection, running, exit_status, quit_handled, screen_mode,
                   printed, raised>>

\* the for loop is exhausted: self.draw(screen); pygame.display.flip()
EndFrame ==
    /\ pc = "events"
    /\ pending = 0
    /\ pc' = "loop"
    /\ UNCHANGED <<tile_properties, it, characters, spawns, layers, start_layers,
                   selection, running, exit_status, pending, quit_handled,
                   screen_mode, printed, raised>>

\* the while test fails: return self.exit_status
Return ==
    /\ pc = "loop"
    /\ ~running
    /\ pc' = "returned"
    /\ UNCHANGED <<tile_properties, it, characters, spawns, layers, start_layers,
                   selection, running, exit_status, pending, quit_handled,
                   screen_mode, printed, raised>>

-----------------------------------------------------------------------------
(* The event loop on a constructed SimpleTest *)

\* the character tiles the Sprite Layer holds at start-up: the red team's
StartGids ==
    {Tileset[i][1] : i \in {j \in 1..Len(Tileset) :
        Has(Tileset[j][2], "team") /\ Tileset[j][2]["team"] = "red"}}

SpriteCount(data) == Cardinality({c \in Cells : data[c[2]][c[1]] # 0})

SpriteLayers ==
    {d \in [Rows -> [Cols -> {0} \cup StartGids]] : SpriteCount(d) <= MaxSprites}

Init ==
    /\ pc = "constructed"
    /\ tile_properties = Tileset
    /\ it = 0
    /\ characters = build_character_index(Tileset).val
    /\ spawns = build_spawn_index(Tileset)
    /\ \E d \in SpriteLayers : layers = [l \in 0..1 |-> IF l = 0 THEN WorldLayer ELSE d]
    /\ start_layers = layers
    /\ selection = None
    /\ running = FALSE
    /\ exit_status = 0
    /\ pending = 0
    /\ quit_handled = FALSE
    /\ screen_mode = init_screen(scale * Width * tilewidth, scale * Height * tileheight)
    /\ printed = ""
    /\ raised = ""

Next ==
    \/ RunStart
    \/ GetEvents
    \/ HandleQuit
    \/ \E key \in Keys : HandleKeyDown(key)
    \/ \E size \in ResizeSizes : HandleResize(size[1], size[2])
    \/ \E pos \in MousePositions : HandleMouseUp(pos)
    \/ HandleOther
    \/ EndFrame
    \/ Return

Spec == Init /\ [][Next]_vars

\* the loop is never held up: each step that can be taken is taken
FairSpec == Spec /\ WF_vars(Next)

-----------------------------------------------------------------------------
(* TiledRenderer.__init__ on a bounded tile set *)

Teams == {"red", "blue"}
Names == {"dude", "dudess", "red"}
Modes == {"idle", "walk"}

\* the properties one tile can carry
PropChoices ==
    [team : Teams, character : Names, mode : Modes]
        \cup {[spawn |-> "red"], [terrain |-> "grass"]}

\* tile_properties with gids 1, 2, ... in iteration order
TileProperties ==
    UNION {{[i \in 1..n |-> <<i, f[i]>>] : f \in [1..n -> PropChoices]} : n \in 1..MaxTiles}

\* self.characters = self.build_character_index()
BuildCharacterIndex ==
    /\ pc = "load"
    /\ LET r == build_character_index(tile_properties)
       IN  /\ characters' = r.val
           /\ raised' = r.err
           /\ pc' = IF r.err # "" THEN "error" ELSE "indexed"
    /\ UNCHANGED <<tile_properties, it, spawns, layers, start_layers, selection,
                   running, exit_status, pending, quit_handled, screen_mode, printed>>

\* self.spawns = self.build_spawn_index()
BuildSpawnIndex ==
    /\ pc = "indexed"
    /\ spawns' = build_spawn_index(tile_properties)
    /\ pc' = "renderer_ready"
    /\ UNCHANGED <<tile_properties, it, characters, layers, start_layers, selection,
                   running, exit_status, pending, quit_handled, screen_mode, printed,
                   raised>>

InitIndex ==
    /\ pc = "load"
    /\ tile_properties \in TileProperties
    /\ it = 0
    /\ characters = EmptyDict
    /\ spawns = <<>>
    /\ layers = [l \in 0..1 |-> IF l = 0 THEN WorldLayer ELSE [y \in Rows |-> [x \in Cols |-> 0]]]
    /\ start_layers = layers
    /\ selection = None
    /\ running = FALSE
    /\ exit_status = 0
    /\ pending = 0
    /\ quit_handled = FALSE
    /\ screen_mode = init_screen(scale * Width * tilewidth, scale * Height * tileheight)
    /\ printed = ""
    /\ raised = ""

NextIndex ==
    \/ BuildCharacterIndex
    \/ BuildSpawnIndex

SpecIndex == InitIndex /\ [][NextIndex]_vars

-----------------------------------------------------------------------------
(* SimpleTest.__init__: the spawn set-up *)

\* tmx_data.get_tile_locations_by_gid(gid): the (x, y, layer) holding gid
get_tile_locations_by_gid(ls, gid) ==
    {t \in Cols \X Rows \X (DOMAIN ls) : ls[t[3]][t[2]][t[1]] = gid}

\* the orders random.shuffle can leave a list of the locations S in
Shuffles(S) ==
    {s \in [1..Cardinality(S) -> S] : \A a \in S : \E i \in 1..Cardinality(S) : s[i] = a}

\* self.renderer.characters[color][name]["idle"]
IdleGid(chars, color, name) ==
    IF Has(chars, color) /\ Has(chars[color], name) /\ Has(chars[color][name], "idle")
    THEN Ok(chars[color][name]["idle"])
    ELSE Fail("KeyError", 0)

\* layers[tile[2]].data[tile[1]][tile[0]] = gid
SetTile(ls, tile, gid) == [ls EXCEPT ![tile[3]][tile[2]][tile[1]] = gid]

RECURSIVE ClearTiles(_, _, _)
\* for tile in tiles[i:]: ... = 0   (i counted from 1)
ClearTiles(ls, tiles, i) ==
    IF i > Len(tiles) THEN ls ELSE ClearTiles(SetTile(ls, tiles[i], 0), tiles, i + 1)

\* the body of `if tiles:` on the shuffled list tiles
PlaceTeam(ls, chars, color, tiles) ==
    LET dudess == IdleGid(chars, color, "dudess")
        dude == IdleGid(chars, color, "dude")
        l1 == SetTile(ls, tiles[1], dudess.val)
    IN  IF dudess.err # "" THEN Fail(dudess.err, ls)
        ELSE IF dude.err # "" THEN Fail(dude.err, l1)
        ELSE IF Len(tiles) < 2 THEN Fail("IndexError", l1)
        ELSE Ok(ClearTiles(SetTile(l1, tiles[2], dude.val), tiles, 3))

\* one iteration of `for color, gid in self.renderer.spawns.items()`
SpawnSetup ==
    /\ pc = "renderer_ready"
    /\ it < Len(spawns)
    /\ it' = it + 1
    /\ LET color == spawns[it + 1][1]
           gid == spawns[it + 1][2]
           found == get_tile_locations_by_gid(layers, gid)
       IN  IF found = {}
           THEN UNCHANGED <<layers, pc, raised>>
           ELSE \E tiles \in Shuffles(found) :
                    LET r == PlaceTeam(layers, characters, color, tiles)
                    IN  /\ layers' = r.val
                        /\ raised' = r.err
                        /\ pc' = IF r.err # "" THEN "error" ELSE pc
    /\ UNCHANGED <<tile_properties, characters, spawns, start_layers, selection,
                   running, exit_status, pending, quit_handled, screen_mode, printed>>

\* the loop is exhausted and __init__ returns
SpawnDone ==
    /\ pc = "renderer_ready"
    /\ it = Len(spawns)
    /\ pc' = "constructed"
    /\ it' = 0
    /\ UNCHANGED <<tile_properties, characters, spawns, layers, start_layers,
                   selection, running, exit_status, pending, quit_handled,
                   screen_mode, printed, raised>>

\* the spawn-marker gids of the tile set
MarkerGids ==
    {Tileset[i][1] : i \in {j \in 1..Len(Tileset) : Has(Tileset[j][2], "spawn")}}

MarkerLayers ==
    {d \in [Rows -> [Cols -> {0} \cup MarkerGids]] : SpriteCount(d) <= MaxSpawnTiles}

InitSpawn ==
    /\ pc = "renderer_ready"
    /\ tile_properties = Tileset
    /\ it = 0
    /\ characters = build_character_index(Tileset).val
    /\ spawns = build_spawn_index(Tileset)
    /\ \E d \in MarkerLayers : layers = [l \in 0..1 |-> IF l = 0 THEN WorldLayer ELSE d]
    /\ start_layers = layers
    /\ selection = None
    /\ running = FALSE
    /\ exit_status = 0
    /\ pending = 0
    /\ quit_handled = FALSE
    /\ screen_mode = init_screen(scale * Width * tilewidth, scale * Height * tileheight)
    /\ printed = ""
    /\ raised = ""

NextSpawn ==
    \/ SpawnSetup
    \/ SpawnDone

SpecSpawn == InitSpawn /\ [][NextSpawn]_vars

-----------------------------------------------------------------------------
(* Properties of the event loop *)

SpriteData(ls) == ls[get_layer_by_name("Sprite Layer")]

\* the clicked cell
ClickX(pos) == TileAt(pos[1], tilewidth)
ClickY(pos) == TileAt(pos[2], tileheight)

\* the "terrain" property of the World Layer tile at (x, y), or "" if the tile
\* has no properties or no such property
TerrainAt(x, y) ==
    LET p == get_tile_properties_by_gid(
                 tile_properties, layers[get_layer_by_name("World Layer")][y][x])
    IN  IF Has(p, "terrain") THEN p["terrain"] ELSE ""

\* how many cells of data hold gid
GidCount(data, gid) == Cardinality({c \in Cells : data[c[2]][c[1]] = gid})

AllGids == {tile_properties[i][1] : i \in 1..Len(tile_properties)}

\* C1 (Move): a click on an empty cell whose terrain is neither water nor
\* mountains, made while a tile is selected, puts the selected gid in the
\* clicked cell, 0 in the previously selected cell, leaves every other Sprite
\* Layer cell as it was and empties the selection.
C1_Move ==
    [][\A pos \in MousePositions :
        LET x == ClickX(pos)
            y == ClickY(pos)
        IN  ( /\ HandleMouseUp(pos)
              /\ selection # None
              /\ SpriteData(layers)[y][x] = 0
              /\ TerrainAt(x, y) \notin {"", "water", "mountains"} )
            => /\ SpriteData(layers')[y][x] = selection[3]
               /\ SpriteData(layers')[selection[2]][selection[1]] = 0
               /\ \A c \in Cells \ {<<x, y>>, <<selection[1], selection[2]>>} :
                      SpriteData(layers')[c[2]][c[1]] = SpriteData(layers)[c[2]][c[1]]
               /\ selection' = None]_vars

\* a sprite stands on a cell that was empty at start-up, nothing is selected
\* and the cell it came from is empty: a move has been made
C1_Witness ==
    /\ pc = "events"
    /\ selection = None
    /\ \E c, d \in Cells :
          /\ SpriteData(start_layers)[c[2]][c[1]] = 0
          /\ SpriteData(layers)[c[2]][c[1]] # 0
          /\ SpriteData(start_layers)[d[2]][d[1]] = SpriteData(layers)[c[2]][c[1]]
          /\ SpriteData(layers)[d[2]][d[1]] = 0

\* C2 (Select): in any reachable state, a click on a cell whose Sprite Layer
\* entry g is not 0 makes the selection (x, y, g).
C2_Select ==
    [][\A pos \in MousePositions :
        LET x == ClickX(pos)
            y == ClickY(pos)
        IN  (HandleMouseUp(pos) /\ SpriteData(layers)[y][x] # 0)
            => selection' = <<x, y, SpriteData(layers)[y][x]>>]_vars

\* C3 (Refused move): a click made while a tile is selected, on a cell whose
\* terrain is water or mountains or whose Sprite Layer entry is not 0, leaves
\* every Sprite Layer cell and the selection as they were.
C3_Refused ==
    [][\A pos \in MousePositions :
        LET x == ClickX(pos)
            y == ClickY(pos)
        IN  ( /\ HandleMouseUp(pos)
              /\ selection # None
              /\ \/ TerrainAt(x, y) \in {"water", "mountains"}
                 \/ SpriteData(layers)[y][x] # 0 )
            => /\ SpriteData(layers') = SpriteData(layers)
               /\ selection' = selection]_vars

\* a move onto mountains has been refused and the selection is still there
C3_Witness ==
    /\ printed = "oh no is mountain"
    /\ selection # None
    /\ SpriteData(layers)[selection[2]][selection[1]] = selection[3]

\* C4 (Sprites only move between empty tiles): the multiset of non-zero gids
\* on the Sprite Layer is always the one of start-up, and a cell goes from 0
\* to non-zero only when the selected sprite moves into it.
C4_SpritesOnlyMove ==
    /\ [](\A g \in AllGids :
             GidCount(SpriteData(layers), g) = GidCount(SpriteData(start_layers), g))
    /\ [][\A c \in Cells :
            (SpriteData(layers)[c[2]][c[1]] = 0 /\ SpriteData(layers')[c[2]][c[1]] # 0)
            => /\ selection # None
               /\ SpriteData(layers')[c[2]][c[1]] = selection[3]
               /\ SpriteData(layers)[selection[2]][selection[1]] = selection[3]
               /\ SpriteData(layers')[selection[2]][selection[1]] = 0
               /\ selection' = None]_vars

\* at least two sprites stand on the layer and one of them stands on a cell
\* that was empty at start-up: a move has been made next to another sprite
C4_Witness ==
    /\ Cardinality({c \in Cells : SpriteData(layers)[c[2]][c[1]] # 0}) >= 2
    /\ \E c \in Cells :
          /\ SpriteData(start_layers)[c[2]][c[1]] = 0
          /\ SpriteData(layers)[c[2]][c[1]] # 0

\* C5 (At most one tile selected): the selection is empty or one (x, y, gid)
\* triple naming an in-bounds Sprite Layer cell that holds exactly that
\* non-zero gid.
C5_OneSelection ==
    \/ selection = None
    \/ /\ Len(selection) = 3
       /\ selection[1] \in Cols
       /\ selection[2] \in Rows
       /\ selection[3] # 0
       /\ SpriteData(layers)[selection[2]][selection[1]] = selection[3]

\* a tile is selected on a layer that moves have already changed
C5_Witness ==
    /\ selection # None
    /\ layers # start_layers
    /\ pc = "events"

\* C6 (Press ESC to quit): once a QUIT or an ESC key-down has been handled,
\* run() leaves its loop and returns 0; run() returns for no other reason,
\* and exit_status is 1 in the loop as long as no quit event was handled.
C6_Quit ==
    /\ [](quit_handled => <>(pc = "returned" /\ exit_status = 0))
    /\ [](pc = "returned" => quit_handled /\ exit_status = 0)
    /\ []((pc \in {"loop", "events"} /\ ~quit_handled) => exit_status = 1)

\* C7 (Resize): handling a VIDEORESIZE event carrying (w, h) sets the screen
\* mode to (w, h).
C7_Resize ==
    [][\A size \in ResizeSizes :
        HandleResize(size[1], size[2]) => screen_mode' = <<size[1], size[2]>>]_vars

\* C10 (Terrain matters only for a move): a click made while nothing is
\* selected is handled without error whatever the World Layer tile is; it
\* selects the cell if its Sprite Layer entry is not 0 and changes nothing
\* otherwise.
C10_ClickUnselected ==
    [][\A pos \in MousePositions :
        LET x == ClickX(pos)
            y == ClickY(pos)
        IN  (HandleMouseUp(pos) /\ selection = None)
            => /\ pc' # "error"
               /\ layers' = layers
               /\ selection' = IF SpriteData(layers)[y][x] # 0
                               THEN <<x, y, SpriteData(layers)[y][x]>>
                               ELSE None]_vars

-----------------------------------------------------------------------------
(* Properties of the constructors *)

IsCharacter(props) ==
    Has(props, "team") /\ Has(props, "character") /\ Has(props, "mode")

\* C8 (build_character_index is complete): for every tile whose properties
\* hold team, character and mode, the returned index has
\* characters[team][character][mode], and it is a gid carrying that triple.
C8_IndexComplete ==
    pc \in {"indexed", "renderer_ready"} =>
        \A i \in 1..Len(tile_properties) :
            LET p == tile_properties[i][2]
            IN  IsCharacter(p) =>
                /\ Has(characters, p["team"])
                /\ Has(characters[p["team"]], p["character"])
                /\ Has(characters[p["team"]][p["character"]], p["mode"])
                /\ \E j \in 1..Len(tile_properties) :
                      /\ tile_properties[j][1] =
                             characters[p["team"]][p["character"]][p["mode"]]
                      /\ tile_properties[j][2] = p

\* how many of the locations S hold gid on the layers ls
Holding(ls, S, gid) == Cardinality({t \in S : ls[t[3]][t[2]][t[1]] = gid})

\* C9 (Spawn set-up): the constructor ends without error and, for every spawn
\* colour whose marker gid stood at n >= 1 locations, exactly one of them
\* holds the colour's "dudess" idle gid, exactly one holds its "dude" idle
\* gid and the others hold 0; every other cell is as it was.
C9_SpawnSetup ==
    /\ pc # "error"
    /\ pc = "constructed" =>
          /\ \A k \in 1..Len(spawns) :
                LET color == spawns[k][1]
                    S == get_tile_locations_by_gid(start_layers, spawns[k][2])
                IN  S # {} =>
                    /\ Holding(layers, S, IdleGid(characters, color, "dudess").val) = 1
                    /\ Holding(layers, S, IdleGid(characters, color, "dude").val) = 1
                    /\ Holding(layers, S, 0) = Cardinality(S) - 2
          /\ \A t \in Cols \X Rows \X (DOMAIN layers) :
                start_layers[t[3]][t[2]][t[1]] \notin {spawns[k][2] : k \in 1..Len(spawns)}
                    => layers[t[3]][t[2]][t[1]] = start_layers[t[3]][t[2]][t[1]]
====
